---- MODULE Spec2Model ----
(***************************************************************************)
(* The game-data registry of cr/abc.py: DataContainer (the per-unit class  *)
(* that _load_json_meta fills, and the instances built from it) and        *)
(* DataContainerHolder (the registry: _load_json, load, get).              *)
(*                                                                         *)
(* Python values are modelled as follows.  None and an absent dict key are *)
(* the integer None.  A str that is compared case-insensitively is a       *)
(* sequence of one-character strings; a supercell_name is a sequence of    *)
(* words.  A class object is an integer (its identity) and the variable    *)
(* classes maps it to the attributes of its __dict__.                      *)
(***************************************************************************)
EXTENDS Integers, Sequences, FiniteSets, TLC

VARIABLES
    data,             \* data[h]: the entries of the file at holder h's FILE_PATH, in file order
    lab_to_townhall,  \* the caller's laboratory level -> town hall level dict
    buildings,        \* the content of static/buildings.json
    classes,          \* class object -> its attributes
    items,            \* items[h]: the ordered collection of holder h
    item_lookup,      \* the CaseInsensitiveDict of DataContainerHolder (a class attribute)
    loaded,           \* loaded[h]
    hpc,              \* hpc[h]: "new", or how the call of _load_json ended
    insts,            \* the instances the callers hold
    ret               \* what the last call of get or load returned

vars == <<data, lab_to_townhall, buildings, classes, items, item_lookup, loaded, hpc, insts, ret>>

None == -1

Max(a, b) == IF a >= b THEN a ELSE b

Range(f) == {f[x] : x \in DOMAIN f}

(***************************************************************************)
(* Bounds.                                                                 *)
(***************************************************************************)
MaxLevels == 2      \* level blocks of an entry drawn for _load_json_meta
MaxEntries == 2     \* entries of the troops file

(***************************************************************************)
(* The holders: two subclasses of DataContainerHolder, each with its own   *)
(* FILE_PATH, data_object and items list.                                  *)
(***************************************************************************)
TroopHolder == 1
PetHolder == 2
Holders == {TroopHolder, PetHolder}

FILE_PATH(h) == IF h = PetHolder THEN <<"static", "pets.json">> ELSE <<"static", "troops.json">>

\* "pets" in str(self.FILE_PATH)
PetsInPath(h) == \E i \in DOMAIN FILE_PATH(h) : FILE_PATH(h)[i] = "pets.json"

\* the class of the holder: holder h's data_object is the class h
data_object(h) == h

\* a class the caller of load passes as default
Fallback == 0

\* the class type(...) makes for entry c of holder h's file
NewItem(h, c) == 10 * h + c

(***************************************************************************)
(* Strings.                                                                *)
(***************************************************************************)
LowerChar(ch) ==
    CASE ch = "A" -> "a"
      [] ch = "B" -> "b"
      [] ch = "C" -> "c"
      [] OTHER -> ch

\* str.lower()
Lower(s) == [i \in DOMAIN s |-> LowerChar(s[i])]

\* CaseInsensitiveDict.__getitem__: the value, or KeyError
KeyError == -2

CIGet(d, k) == IF Lower(k) \in DOMAIN d THEN d[Lower(k)] ELSE KeyError

\* CaseInsensitiveDict.__setitem__
CISet(d, k, v) == [x \in DOMAIN d \cup {Lower(k)} |-> IF x = Lower(k) THEN v ELSE d[x]]

EmptyDict == [x \in {} |-> None]

(***************************************************************************)
(* The caller's inputs.                                                    *)
(***************************************************************************)
\* english_aliases: TID -> display name
english_aliases ==
    [t \in {"TID_AB", "TID_ab", "TID_BA", "TID_PET"} |->
        CASE t = "TID_AB" -> <<"A", "b">>
          [] t = "TID_ab" -> <<"a", "B">>
          [] t = "TID_BA" -> <<"B", "a">>
          [] OTHER -> <<"c", "c">>]

PETS_ORDER == {<<"c", "c">>}

IGNORED_PETS == {<<"Unused">>, <<"PhoenixEgg">>}

BarracksFamily == {"SiegeWorkshop", "Spell Forge", "Mini Spell Factory",
                   "Dark Elixir Barrack", "Barrack", "Barrack2"}

\* the production buildings that set a category flag
FlagBuildings == {"Barrack", "Dark Elixir Barrack", "SiegeWorkshop", "Spell Forge",
                  "Mini Spell Factory"}

(***************************************************************************)
(* DataContainer._load_json_meta                                           *)
(***************************************************************************)
\* try_enum(UnitStat, values): a series; values that are all None give the absent series
UnitStat(values) == IF \A i \in DOMAIN values : values[i] = None THEN <<>> ELSE values

\* the attributes of a class that no _load_json_meta has touched
BaseAttrs ==
    [own |-> {}, id |-> None, name |-> <<>>, lab_level |-> <<>>, is_loaded |-> FALSE,
     range |-> <<>>, dps |-> <<>>, hitpoints |-> <<>>, speed |-> <<>>, upgrade_cost |-> <<>>,
     upgrade_time |-> <<>>, ability_time |-> <<>>, ability_troop_count |-> <<>>,
     required_th_level |-> <<>>, regeneration_time |-> <<>>]

\* json_meta.get(level).get(field): None when the level block has no such key
LevelGet(level, field) == IF field \in DOMAIN level THEN level[field] ELSE None

\* [json_meta.get(level).get(field) for level in levels_available]
LevelValues(json_meta, field) ==
    [i \in DOMAIN json_meta.levels |-> LevelGet(json_meta.levels[i], field)]

\* TimeDelta(hours=h) and TimeDelta(minutes=m), in seconds
TimeDeltaHours(h) == 3600 * h

TimeDeltaMinutes(m) == 60 * m

\* lines 221-225: the TimeDelta of UpgradeTimeH of the levels that have one
UpgradeTimes(json_meta) ==
    LET present == SelectSeq(LevelValues(json_meta, "UpgradeTimeH"), LAMBDA v : v # None)
    IN  [i \in DOMAIN present |-> TimeDeltaHours(present[i])]

\* lines 242-246: the TimeDelta of RegenerationTimeMinutes of the levels that have one
RegenerationTimes(json_meta) ==
    LET present == SelectSeq(LevelValues(json_meta, "RegenerationTimeMinutes"),
                             LAMBDA v : v # None)
    IN  [i \in DOMAIN present |-> TimeDeltaMinutes(present[i])]

\* any(values): some value is neither None nor 0
any(values) == \E i \in DOMAIN values : values[i] # None /\ values[i] # 0

\* variant of RequiredThLevels: the RequiredTownHallLevel list is always taken
RequiredThLevelsNoFallback(required_townhall_levels, laboratory_levels) ==
    required_townhall_levels

\* line 240: required_townhall_levels if any(required_townhall_levels) else laboratory_levels
RequiredThLevels(required_townhall_levels, laboratory_levels) ==
    IF any(required_townhall_levels) THEN required_townhall_levels ELSE laboratory_levels

\* lines 155-167: the production building after the category flags and the pets rule
ProductionBuilding(json_meta, name) ==
    IF json_meta.ProductionBuilding \in FlagBuildings THEN json_meta.ProductionBuilding
    ELSE IF name \in PETS_ORDER THEN "Pet Shop"
    ELSE json_meta.ProductionBuilding

\* [json_meta.get(level).get("LaboratoryLevel") for level in levels_available]
RawLabLevels(json_meta) ==
    [i \in DOMAIN json_meta.levels |-> json_meta.levels[i].LaboratoryLevel]

\* [json_meta.get(level).get("LaboratoryLevel", 1) for level in levels_available]
RawLabLevelsDefault1(json_meta) ==
    [i \in DOMAIN json_meta.levels |->
        IF json_meta.levels[i].LaboratoryLevel = None THEN 1
        ELSE json_meta.levels[i].LaboratoryLevel]

\* prod_unit.get(str(level)).get("TownHallLevel", 0); KeyError stands for the
\* AttributeError of None.get when the building or its level is missing
MinThLevel(bld, pb, level) ==
    IF pb \notin DOMAIN bld THEN KeyError
    ELSE IF level \notin DOMAIN bld[pb] THEN KeyError
    ELSE IF bld[pb][level] = None THEN 0
    ELSE bld[pb][level]

\* [lab_level for lab_level, th_level in lab_to_townhall.items() if th_level == min_th_level]
FirstLabLevels(l2t, min_th_level) == {lab \in DOMAIN l2t : l2t[lab] = min_th_level}

\* variant of FloorLevels: only the first level is raised to the floor
FloorFirstOnly(raw, first_lab_level) ==
    [i \in DOMAIN raw |-> IF i = 1 THEN Max(raw[i], first_lab_level) ELSE raw[i]]

\* variant of FloorLevels: min in place of max
FloorMin(raw, first_lab_level) ==
    [i \in DOMAIN raw |-> IF raw[i] <= first_lab_level THEN raw[i] ELSE first_lab_level]

\* for lab_level in [...]: laboratory_levels.append(max(lab_level, first_lab_level))
FloorLevels(raw, first_lab_level) ==
    [i \in DOMAIN raw |-> Max(raw[i], first_lab_level)]

\* The laboratory_levels local of _load_json_meta as <<outcome, value>>:
\* "ok" with the list, "return" for the bare return, "raise" for an exception.
LaboratoryLevels(json_meta, name, l2t, bld) ==
    LET pb == ProductionBuilding(json_meta, name) IN
    IF pb = "" THEN <<"ok", RawLabLevels(json_meta)>>
    ELSE IF pb \in BarracksFamily THEN
        LET min_prod_unit_level == json_meta.BarrackLevel IN
        IF min_prod_unit_level = None \/ min_prod_unit_level = 0
        THEN <<"ok", RawLabLevels(json_meta)>>
        ELSE LET min_th_level == MinThLevel(bld, pb, min_prod_unit_level)
                 firsts == FirstLabLevels(l2t, min_th_level)
             IN  IF min_th_level = KeyError \/ Cardinality(firsts) # 1
                 THEN <<"raise", <<>>>>
                 ELSE <<"ok", FloorLevels(RawLabLevelsDefault1(json_meta),
                                          CHOOSE f \in firsts : TRUE)>>
    ELSE IF pb = "Pet Shop" THEN
        LET min_prod_unit_level == json_meta.levels[1].LaboratoryLevel
            min_th_level == MinThLevel(bld, pb, min_prod_unit_level)
            firsts == FirstLabLevels(l2t, min_th_level)
            raw == RawLabLevels(json_meta)
        IN  IF \/ min_th_level = KeyError
               \/ Cardinality(firsts) # 1
               \/ \E i \in DOMAIN raw : raw[i] = None     \* max(None, int): TypeError
            THEN <<"raise", <<>>>>
            ELSE <<"ok", FloorLevels(raw, CHOOSE f \in firsts : TRUE)>>
    ELSE <<"return", <<>>>>

\* The call new_item._load_json_meta(meta, id=, name=, lab_to_townhall=) on a fresh
\* copy of the data_object: how it ended and the attributes the class then has.
_load_json_meta(json_meta, id, name, l2t, bld) ==
    LET labs == LaboratoryLevels(json_meta, name, l2t, bld)
        \* lines 142-152: what is set before the production building is looked at
        early == [BaseAttrs EXCEPT
                    !.own = {"id", "name", "range", "dps", "hitpoints"},
                    !.id = id,
                    !.name = name,
                    !.range = UnitStat(LevelValues(json_meta, "AttackRange")),
                    !.dps = UnitStat(LevelValues(json_meta, "DPS")),
                    !.hitpoints = UnitStat(LevelValues(json_meta, "Hitpoints"))]
    IN  IF labs[1] = "raise" THEN [outcome |-> "raise", attrs |-> early]
        ELSE IF labs[1] = "return" THEN [outcome |-> "return", attrs |-> early]
        ELSE [outcome |-> "ok",
              attrs |-> [early EXCEPT
                    !.own = DOMAIN BaseAttrs \ {"own"},
                    !.lab_level = UnitStat(labs[2]),
                    !.speed = UnitStat(LevelValues(json_meta, "Speed")),
                    !.upgrade_cost = UnitStat(LevelValues(json_meta, "UpgradeCost")),
                    !.upgrade_time = UnitStat(UpgradeTimes(json_meta)),
                    !.ability_time = UnitStat(LevelValues(json_meta, "AbilityTime")),
                    !.ability_troop_count =
                        UnitStat(LevelValues(json_meta, "AbilitySummonTroopCount")),
                    !.required_th_level =
                        UnitStat(RequiredThLevels(
                            LevelValues(json_meta, "RequiredTownHallLevel"), labs[2])),
                    !.regeneration_time = UnitStat(RegenerationTimes(json_meta)),
                    !.is_loaded = TRUE]]

(***************************************************************************)
(* DataContainerHolder                                                     *)
(***************************************************************************)
\* "Tutorial" in supercell_name
TutorialIn(supercell_name) == \E i \in DOMAIN supercell_name : supercell_name[i] = "Tutorial"

\* what tells the class made for an entry by a second call of _load_json from the
\* class the first call made for it: type() gives a new class object at every call
SecondCall == 100

\* variant of SkipEntry: an entry whose name the index already holds is passed over
SkipEntryKnownName(h, meta) ==
    \/ meta.TID = ""
    \/ TutorialIn(meta.supercell_name)
    \/ meta.DisableProduction /\ ~PetsInPath(h)
    \/ meta.Deprecated
    \/ PetsInPath(h) /\ meta.supercell_name \in IGNORED_PETS
    \/ /\ meta.TID \in DOMAIN english_aliases
       /\ Lower(english_aliases[meta.TID]) \in DOMAIN item_lookup

\* variant of SkipEntry: the Deprecated rule is missing
SkipEntryNoDeprecated(h, meta) ==
    \/ meta.TID = ""
    \/ TutorialIn(meta.supercell_name)
    \/ meta.DisableProduction /\ ~PetsInPath(h)
    \/ PetsInPath(h) /\ meta.supercell_name \in IGNORED_PETS

\* lines 299-318: the entries the loop of _load_json passes over; an entry with no
\* "TID" key has the TID ""
SkipEntry(h, meta) ==
    \/ meta.TID = ""
    \/ TutorialIn(meta.supercell_name)
    \/ meta.DisableProduction /\ ~PetsInPath(h)
    \/ meta.Deprecated
    \/ PetsInPath(h) /\ meta.supercell_name \in IGNORED_PETS

\* variant of SetItemLookup: a name that is already in the index keeps its class
SetItemLookupFirstWins(lookup, name, new_item) ==
    IF Lower(name) \in DOMAIN lookup THEN lookup ELSE CISet(lookup, name, new_item)

\* line 332: self.item_lookup[new_item.name] = new_item
SetItemLookup(lookup, name, new_item) == CISet(lookup, name, new_item)

\* variant of NextId: an id is left out after every template
NextIdGap(id) == id + 2

\* line 330: id += 1
NextId(id) == id + 1

\* The loop of _load_json from entry c on, with the next id and the registry so far:
\* st.raised tells whether an exception left the loop.
RECURSIVE LoadLoop(_, _, _, _)
LoadLoop(h, c, id, st) ==
    IF c > Len(data[h]) THEN st
    ELSE LET meta == data[h][c] IN
        IF SkipEntry(h, meta) THEN LoadLoop(h, c + 1, id, st)
        ELSE IF meta.TID \notin DOMAIN english_aliases THEN [st EXCEPT !.raised = TRUE]
        ELSE LET r == _load_json_meta(meta, id, english_aliases[meta.TID],
                                      lab_to_townhall, buildings)
                 new_item == IF NewItem(h, c) \in DOMAIN st.classes
                             THEN NewItem(h, c) + SecondCall
                             ELSE NewItem(h, c)
             IN  IF r.outcome = "raise" THEN [st EXCEPT !.raised = TRUE]
                 ELSE LoadLoop(h, c + 1, NextId(id),
                        [raised |-> FALSE,
                         items |-> Append(st.items, new_item),
                         item_lookup |-> SetItemLookup(st.item_lookup, r.attrs.name, new_item),
                         classes |-> [k \in DOMAIN st.classes \cup {new_item} |->
                                        IF k = new_item THEN r.attrs ELSE st.classes[k]]])

\* the id of the first template of a load
BaseId == 2000

\* The body of DataContainerHolder._load_json on holder h; done is the position the
\* holder is at when the call has returned.
LoadJson(h, done) ==
    /\ LET st == LoadLoop(h, 1, BaseId, [raised |-> FALSE, items |-> items[h],
                                         item_lookup |-> item_lookup, classes |-> classes])
       IN  /\ items' = [items EXCEPT ![h] = st.items]
           /\ item_lookup' = st.item_lookup
           /\ classes' = st.classes
           /\ loaded' = [loaded EXCEPT ![h] = IF st.raised THEN @ ELSE TRUE]
           /\ hpc' = [hpc EXCEPT ![h] = IF st.raised THEN "raised" ELSE done]
    /\ UNCHANGED <<data, lab_to_townhall, buildings, insts, ret>>

\* DataContainerHolder._load_json, called once on holder h
_load_json(h) ==
    /\ hpc[h] = "new"
    /\ LoadJson(h, "returned")

\* a second call of _load_json on holder h, or the call on a second instance of the
\* holder's class: items and item_lookup are attributes of the class, so the call
\* works on the collections the first call has filled
_load_json_again(h) ==
    /\ hpc[h] = "returned"
    /\ LoadJson(h, "reloaded")

\* default or self.data_object
DefaultOr(h, default) == IF default = None THEN data_object(h) ELSE default

\* variant of LoadItem: the KeyError of the lookup is not caught
LoadItemRaising(h, name, default, load_game_data) ==
    IF load_game_data THEN CIGet(item_lookup, name) ELSE DefaultOr(h, default)

\* lines 339-345 of load: the class the instance is made of
LoadItem(h, name, default, load_game_data) ==
    IF load_game_data
    THEN IF CIGet(item_lookup, name) = KeyError THEN DefaultOr(h, default)
         ELSE CIGet(item_lookup, name)
    ELSE DefaultOr(h, default)

\* variant of GetItem: the KeyError of the lookup is not caught
GetItemRaising(name) == CIGet(item_lookup, name)

\* lines 350-353 of get: the value returned
GetItem(name) ==
    IF CIGet(item_lookup, name) = KeyError THEN None ELSE CIGet(item_lookup, name)

\* DataContainer.__init__(data, townhall) on class item
__init__(item, d, townhall) ==
    [cls |-> item,
     name |-> d.name, level |-> d.level, max_level |-> d.maxLevel, village |-> d.village,
     is_active |-> d.superTroopIsActive,
     townhall |-> townhall,
     hname |-> d.name, hlevel |-> d.level, hvillage |-> d.village,
     his_active |-> d.superTroopIsActive]

\* a slot that holds no instance
NoInst == [made |-> FALSE]

NoRet == [op |-> "none"]

\* DataContainerHolder.load(data, townhall, default, load_game_data); the caller keeps
\* the instance in slot s, or drops it when s is no slot
load(h, d, townhall, default, load_game_data, s) ==
    LET item == LoadItem(h, d.name, default, load_game_data)
        made == IF item = KeyError THEN NoInst
                ELSE [made |-> TRUE, data |-> d, obj |-> __init__(item, d, townhall)]
    IN
    /\ ret' = [op |-> "load", h |-> h, name |-> d.name, default |-> default,
               load_game_data |-> load_game_data, cls |-> item, inst |-> made]
    /\ insts' = [x \in DOMAIN insts |-> IF x = s THEN made ELSE insts[x]]
    /\ UNCHANGED <<data, lab_to_townhall, buildings, classes, items, item_lookup, loaded, hpc>>

\* variant of get: a miss stores None under the name, as a setdefault would
get_inserting(h, name) ==
    /\ ret' = [op |-> "get", h |-> h, name |-> name, default |-> None,
               load_game_data |-> TRUE, cls |-> GetItem(name), inst |-> NoInst]
    /\ item_lookup' = IF GetItem(name) = None THEN CISet(item_lookup, name, None)
                      ELSE item_lookup
    /\ UNCHANGED <<data, lab_to_townhall, buildings, classes, items, loaded, hpc, insts>>

\* DataContainerHolder.get(name)
get(h, name) ==
    /\ ret' = [op |-> "get", h |-> h, name |-> name, default |-> None,
               load_game_data |-> TRUE, cls |-> GetItem(name), inst |-> NoInst]
    /\ UNCHANGED <<data, lab_to_townhall, buildings, classes, items, item_lookup, loaded, hpc,
                   insts>>

\* the attributes of class k after setattr(k, f, v) for every attribute of class parent
CopyAttrs(k, parent) ==
    LET p == classes[parent]
        q == classes[k]
        Copied(f, old, new) == IF f \in p.own THEN new ELSE old
    IN  [own |-> q.own \cup p.own,
         id |-> Copied("id", q.id, p.id),
         name |-> Copied("name", q.name, p.name),
         lab_level |-> Copied("lab_level", q.lab_level, p.lab_level),
         is_loaded |-> Copied("is_loaded", q.is_loaded, p.is_loaded),
         range |-> Copied("range", q.range, p.range),
         dps |-> Copied("dps", q.dps, p.dps),
         hitpoints |-> Copied("hitpoints", q.hitpoints, p.hitpoints),
         speed |-> Copied("speed", q.speed, p.speed),
         upgrade_cost |-> Copied("upgrade_cost", q.upgrade_cost, p.upgrade_cost),
         upgrade_time |-> Copied("upgrade_time", q.upgrade_time, p.upgrade_time),
         ability_time |-> Copied("ability_time", q.ability_time, p.ability_time),
         ability_troop_count |->
            Copied("ability_troop_count", q.ability_troop_count, p.ability_troop_count),
         required_th_level |->
            Copied("required_th_level", q.required_th_level, p.required_th_level),
         regeneration_time |->
            Copied("regeneration_time", q.regeneration_time, p.regeneration_time)]

\* variant of _load_from_parent: the attributes go from the own class to the parent
_load_from_parent_swapped(s, parent) ==
    /\ insts[s].made
    /\ parent \in DOMAIN classes
    /\ classes' = [classes EXCEPT ![parent] = CopyAttrs(parent, insts[s].obj.cls)]
    /\ UNCHANGED <<data, lab_to_townhall, buildings, items, item_lookup, loaded, hpc, insts, ret>>

\* DataContainer._load_from_parent(parent) on the instance in slot s
_load_from_parent(s, parent) ==
    /\ insts[s].made
    /\ parent \in DOMAIN classes
    /\ classes' = [classes EXCEPT ![insts[s].obj.cls] = CopyAttrs(insts[s].obj.cls, parent)]
    /\ UNCHANGED <<data, lab_to_townhall, buildings, items, item_lookup, loaded, hpc, insts, ret>>

\* variant of __eq__: is_active is not compared
__eq__NoActive(self, other) ==
    /\ self.name = other.name
    /\ self.level = other.level
    /\ self.village = other.village

\* DataContainer.__eq__
__eq__(self, other) ==
    /\ self.name = other.name
    /\ self.level = other.level
    /\ self.village = other.village
    /\ self.is_active = other.is_active

\* an assignment instance.field = value to one of the public attributes that __init__
\* sets, on the instance in slot s; the copies the hash is taken of stay as they are
setattr(s, field, value) ==
    /\ insts[s].made
    /\ field \in {"name", "level", "village", "is_active"}
    /\ insts' = [insts EXCEPT ![s].obj = [@ EXCEPT ![field] = value]]
    /\ UNCHANGED <<data, lab_to_townhall, buildings, classes, items, item_lookup, loaded, hpc,
                   ret>>

\* DataContainer.__hash__: the tuple that is hashed
__hash__(self) == <<self.hname, self.hlevel, self.hvillage, self.his_active>>

(***************************************************************************)
(* The inputs the specifications draw from.                                *)
(***************************************************************************)
Entry(sc, tid, disable, deprecated, pb, barrack_level, labs) ==
    [supercell_name |-> sc, TID |-> tid, DisableProduction |-> disable,
     Deprecated |-> deprecated, ProductionBuilding |-> pb, BarrackLevel |-> barrack_level,
     levels |-> [i \in DOMAIN labs |-> [LaboratoryLevel |-> labs[i]]]]

\* lab 3 -> TH 5, lab 5 -> TH 9, lab 7 -> TH 13
InjectiveMap == [lab \in {3, 5, 7} |-> CASE lab = 3 -> 5 [] lab = 5 -> 9 [] OTHER -> 13]

\* two laboratory levels for TH 9, none for TH 5
AmbiguousMap == [lab \in {3, 5, 7} |-> CASE lab = 3 -> 9 [] lab = 5 -> 9 [] OTHER -> 13]

LabMaps == {InjectiveMap, AmbiguousMap}

BarrackTable == [lv \in {2, 6, 8} |-> CASE lv = 2 -> 5 [] lv = 6 -> 9 [] OTHER -> 13]

PetShopTable == [lv \in {3, 9} |-> CASE lv = 3 -> 5 [] OTHER -> 13]

\* a buildings.json without "Barrack2" and without "Hero Altar"
BuildingsFile ==
    [b \in {"Barrack", "SiegeWorkshop", "Pet Shop"} |->
        IF b = "Pet Shop" THEN PetShopTable ELSE BarrackTable]

\* the same file with no TownHallLevel in level 6 of the siege workshop
BuildingsFileNoTh ==
    [b \in {"Barrack", "SiegeWorkshop", "Pet Shop"} |->
        CASE b = "Pet Shop" -> PetShopTable
          [] b = "SiegeWorkshop" -> [BarrackTable EXCEPT ![6] = None]
          [] OTHER -> BarrackTable]

BuildingTables == {BuildingsFile, BuildingsFileNoTh}

RawLabs == {None, 3, 5, 9}

LabSeqs == UNION {[1..n -> RawLabs] : n \in 1..MaxLevels}

\* the scenario of the specification: BarrackLevel 6, raw levels 3,4,4,5,5,5
ScenarioTroop == Entry(<<"Scenario">>, "TID_AB", FALSE, FALSE, "Barrack", 6, <<3, 4, 4, 5, 5, 5>>)

\* the entries whose templates _load_json_meta is examined on
MetaEntries ==
    {Entry(<<"Unit">>, tid, FALSE, FALSE, pb, bl, labs) :
        tid \in {"TID_AB", "TID_PET"},
        pb \in {"", "Barrack", "SiegeWorkshop", "Barrack2", "Pet Shop", "Hero Altar"},
        bl \in {None, 0, 2, 6},
        labs \in LabSeqs}
    \cup {ScenarioTroop}

\* one level block of an entry with stat keys: LaboratoryLevel 3 and DPS 10 on every
\* level; a key whose value is None is a key the block does not have
StatLevel(upgrade_time_h, required_th, regeneration_min, hitpoints) ==
    [LaboratoryLevel |-> 3, DPS |-> 10, Hitpoints |-> hitpoints,
     UpgradeTimeH |-> upgrade_time_h, RequiredTownHallLevel |-> required_th,
     RegenerationTimeMinutes |-> regeneration_min]

StatLevels ==
    {StatLevel(u, r, g, hp) : u \in {None, 4}, r \in {None, 0, 6}, g \in {None, 7},
                              hp \in {None, 50}}

StatLevelSeqs == UNION {[1..n -> StatLevels] : n \in 1..MaxLevels}

\* the entries whose stat series are examined: a hero and a barracks unit of
\* BarrackLevel 6
StatEntries ==
    {[Entry(<<"Unit">>, "TID_AB", FALSE, FALSE, pb, 6, <<3>>) EXCEPT !.levels = lv] :
        pb \in {"", "Barrack"}, lv \in StatLevelSeqs}

\* the entries of a troops file
Troop_Ab == Entry(<<"Knight">>, "TID_AB", FALSE, FALSE, "Barrack", 8, <<3, 9>>)
Troop_aB == Entry(<<"Knight2">>, "TID_ab", FALSE, FALSE, "", None, <<5, 3>>)
Troop_Ba == Entry(<<"Archer">>, "TID_BA", FALSE, FALSE, "", None, <<3, 5>>)
Troop_Ambiguous == Entry(<<"Ram">>, "TID_BA", FALSE, FALSE, "SiegeWorkshop", 6, <<3, 5>>)
Troop_OtherBuilding == Entry(<<"Golem">>, "TID_BA", FALSE, FALSE, "Hero Altar", None, <<3, 5>>)
Troop_NoTid == Entry(<<"Dummy">>, "", FALSE, FALSE, "Barrack", 8, <<3, 9>>)
Troop_Tutorial == Entry(<<"Tutorial", "Goblin">>, "TID_AB", FALSE, FALSE, "Barrack", 8, <<3, 9>>)
Troop_Disabled == Entry(<<"Old">>, "TID_AB", TRUE, FALSE, "Barrack", 8, <<3, 9>>)
Troop_Deprecated == Entry(<<"Gone">>, "TID_BA", FALSE, TRUE, "", None, <<3, 5>>)
\* an entry whose TID is no key of english_aliases
Troop_UnknownTid == Entry(<<"Mystery">>, "TID_ZZ", FALSE, FALSE, "Barrack", 8, <<3, 9>>)

TroopEntries == {Troop_Ab, Troop_aB, Troop_Ambiguous, Troop_OtherBuilding,
                 Troop_NoTid, Troop_Tutorial, Troop_Disabled, Troop_Deprecated,
                 Troop_UnknownTid}

TroopFiles == UNION {[1..n -> TroopEntries] : n \in 0..MaxEntries}

\* the entries of a pets file: every pet has DisableProduction set
Pet_cc == Entry(<<"Lassi">>, "TID_PET", TRUE, FALSE, "", None, <<9, 3>>)
Pet_Unused == Entry(<<"Unused">>, "TID_PET", TRUE, FALSE, "", None, <<9, 3>>)
Pet_Deprecated == Entry(<<"OldPet">>, "TID_PET", TRUE, TRUE, "", None, <<9, 3>>)
Pet_Ab == Entry(<<"Owl">>, "TID_AB", TRUE, FALSE, "", None, <<3, 3>>)

PetFiles == {<<Pet_Unused, Pet_cc>>, <<Pet_Deprecated, Pet_Ab>>}

QueryNames == {<<"A", "B">>, <<"b", "A">>, <<"b", "b">>}

PlayerUnit(name, level, max_level, village, active) ==
    [name |-> name, level |-> level, maxLevel |-> max_level, village |-> village,
     superTroopIsActive |-> active]

\* the units of the player data the registry specification materializes
QueryUnits == {PlayerUnit(n, 1, 2, "home", None) : n \in QueryNames}

\* the units of the player data whose instances are compared; superTroopIsActive is
\* absent (None), true (1) or false (0)
CompareUnits ==
    {PlayerUnit(<<"A", "b">>, 1, 2, "home", 0),
     PlayerUnit(<<"a", "b">>, 1, 2, "home", 0),
     PlayerUnit(<<"A", "b">>, 2, 2, "home", 0),
     PlayerUnit(<<"A", "b">>, 1, 3, "home", 0),
     PlayerUnit(<<"A", "b">>, 1, 2, "builderBase", 0),
     PlayerUnit(<<"A", "b">>, 1, 2, "home", 1),
     PlayerUnit(<<"A", "b">>, 1, 2, "home", None)}

\* the units whose instances have attributes reassigned
AssignUnits ==
    {PlayerUnit(<<"A", "b">>, 1, 2, "home", 0),
     PlayerUnit(<<"A", "b">>, 2, 2, "home", 0)}

\* the values assigned to a public attribute
AssignValues(field) ==
    CASE field = "name" -> {<<"A", "b">>, <<"a", "b">>}
      [] field = "level" -> {1, 2}
      [] field = "village" -> {"home", "builderBase"}
      [] OTHER -> {0, 1}

Slots == {"a", "b"}

\* the townhall argument of load
TownHalls == {13}

(***************************************************************************)
(* Specifications.                                                         *)
(***************************************************************************)
InitRegistry ==
    /\ classes = [k \in {Fallback} \cup {data_object(h) : h \in Holders} |-> BaseAttrs]
    /\ items = [h \in Holders |-> <<>>]
    /\ item_lookup = EmptyDict
    /\ loaded = [h \in Holders |-> FALSE]
    /\ hpc = [h \in Holders |-> "new"]
    /\ insts = [s \in Slots |-> NoInst]
    /\ ret = NoRet

\* The registry: files drawn from the entries above, loads, and readers.
Init ==
    /\ data \in {[h \in Holders |-> IF h = TroopHolder THEN t ELSE p] :
                    t \in TroopFiles, p \in PetFiles}
    /\ lab_to_townhall = AmbiguousMap
    /\ buildings = BuildingsFile
    /\ InitRegistry

Load == \E h \in Holders : _load_json(h)

Get == \E h \in Holders, name \in QueryNames : get(h, name)

Materialize ==
    \E h \in Holders, d \in QueryUnits, default \in {None, Fallback}, lgd \in BOOLEAN :
        \E townhall \in TownHalls : load(h, d, townhall, default, lgd, "")

Next == Load \/ Get \/ Materialize

Spec == Init /\ [][Next]_vars

\* The same files, each loaded and then loaded a second time.
LoadAgain == \E h \in Holders : _load_json_again(h)

NextTwice == Load \/ LoadAgain

SpecTwice == Init /\ [][NextTwice]_vars

\* _load_json_meta on one entry: a troops file of one entry drawn from MetaEntries.
InitMeta ==
    /\ data \in {[h \in Holders |-> IF h = TroopHolder THEN <<e>> ELSE <<>>] : e \in MetaEntries}
    /\ lab_to_townhall \in LabMaps
    /\ buildings \in BuildingTables
    /\ InitRegistry

NextMeta == Load

SpecMeta == InitMeta /\ [][NextMeta]_vars

\* The stat series: a troops file of one entry drawn from StatEntries.
InitStats ==
    /\ data \in {[h \in Holders |-> IF h = TroopHolder THEN <<e>> ELSE <<>>] : e \in StatEntries}
    /\ lab_to_townhall = InjectiveMap
    /\ buildings = BuildingsFile
    /\ InitRegistry

NextStats == Load

SpecStats == InitStats /\ [][NextStats]_vars

\* Instances: one fixed pair of files, and callers that keep two instances.
InitInst ==
    /\ data = [h \in Holders |-> IF h = TroopHolder THEN <<Troop_Ab, Troop_Ba>>
                                 ELSE <<Pet_cc>>]
    /\ lab_to_townhall = AmbiguousMap
    /\ buildings = BuildingsFile
    /\ InitRegistry

MaterializeAny ==
    \E h \in Holders, d \in CompareUnits, default \in {None, Fallback}, lgd \in BOOLEAN,
       s \in Slots :
        \E townhall \in TownHalls : load(h, d, townhall, default, lgd, s)

NextInst == Load \/ MaterializeAny

SpecInst == InitInst /\ [][NextInst]_vars

\* Reassignment: the same files, two kept instances, and assignments to their public
\* attributes.
MaterializeUnit ==
    \E h \in Holders, d \in AssignUnits, s \in Slots :
        \E townhall \in TownHalls : load(h, d, townhall, None, TRUE, s)

Reassign ==
    \E s \in Slots, field \in {"name", "level", "village", "is_active"} :
        \E value \in AssignValues(field) : setattr(s, field, value)

NextAssign == Load \/ MaterializeUnit \/ Reassign

SpecAssign == InitInst /\ [][NextAssign]_vars

\* The overlay: the same files, one instance, and _load_from_parent.
LoadFromParent == \E parent \in DOMAIN classes : _load_from_parent("a", parent)

MaterializeKept ==
    \E h \in Holders, d \in QueryUnits, default \in {None, Fallback}, lgd \in BOOLEAN :
        \E townhall \in TownHalls : load(h, d, townhall, default, lgd, "a")

NextOverlay == Load \/ MaterializeKept \/ LoadFromParent

SpecOverlay == InitInst /\ [][NextOverlay]_vars

(***************************************************************************)
(* Properties.                                                             *)
(***************************************************************************)
InItems(h, k) == \E i \in DOMAIN items[h] : items[h][i] = k

\* the classes some holder's ordered collection holds
Templates == {k \in DOMAIN classes : \E h \in Holders : InItems(h, k)}

NonDecreasing(s) == \A i, j \in DOMAIN s : i <= j => s[i] <= s[j]

RawOf(e) == [i \in DOMAIN e.levels |-> e.levels[i].LaboratoryLevel]

AllLabsPresent(e) == \A i \in DOMAIN e.levels : e.levels[i].LaboratoryLevel # None

\* the template _load_json_meta completed for entry c of holder h's file
Completed(h, c) ==
    /\ c \in DOMAIN data[h]
    /\ NewItem(h, c) \in DOMAIN classes
    /\ classes[NewItem(h, c)].is_loaded

\* C1 as stated: the laboratory_level series of every completed template (hero path,
\* barracks-family path with or without BarrackLevel, pet-shop path) is non-decreasing
\* in the unit level, for every raw per-level LaboratoryLevel input.
C1_NonDecreasingForEveryInput ==
    \A h \in Holders : \A c \in DOMAIN data[h] :
        (Completed(h, c) /\ AllLabsPresent(data[h][c]))
            => NonDecreasing(classes[NewItem(h, c)].lab_level)

\* C1 amended: the laboratory_level series of every completed template is
\* non-decreasing in the unit level whenever the raw per-level LaboratoryLevel
\* input is non-decreasing: flooring keeps the order of the input, it does not sort.
C1_NonDecreasingWhenInputIs ==
    \A h \in Holders : \A c \in DOMAIN data[h] :
        (Completed(h, c) /\ AllLabsPresent(data[h][c]) /\ NonDecreasing(RawOf(data[h][c])))
            => NonDecreasing(classes[NewItem(h, c)].lab_level)

\* a completed template of a non-decreasing input that the floor has raised
C1_Witness ==
    \E c \in DOMAIN data[TroopHolder] :
        /\ Completed(TroopHolder, c)
        /\ AllLabsPresent(data[TroopHolder][c])
        /\ NonDecreasing(RawOf(data[TroopHolder][c]))
        /\ Len(data[TroopHolder][c].levels) >= 2
        /\ classes[NewItem(TroopHolder, c)].lab_level # RawOf(data[TroopHolder][c])

\* the building level whose town hall level gives the floor: BarrackLevel on the
\* barracks-family path, the level-1 LaboratoryLevel on the pet-shop path; None on
\* the paths with no floor
FloorBuildingLevel(e) ==
    LET pb == ProductionBuilding(e, english_aliases[e.TID]) IN
    IF pb \in BarracksFamily /\ e.BarrackLevel # None /\ e.BarrackLevel # 0
    THEN e.BarrackLevel
    ELSE IF pb \notin BarracksFamily /\ pb = "Pet Shop" THEN e.levels[1].LaboratoryLevel
    ELSE None

\* lab is the one laboratory level lab_to_townhall maps to town hall level th
UniqueLabFor(lab, th) ==
    /\ lab \in DOMAIN lab_to_townhall
    /\ lab_to_townhall[lab] = th
    /\ \A other \in DOMAIN lab_to_townhall : lab_to_townhall[other] = th => other = lab

\* C2: when a floor level is resolved, laboratory_level[i] = max(raw[i], floor) >= floor
\* at every level i, floor being the unique laboratory level that lab_to_townhall maps
\* to the town hall level of the production building at level BarrackLevel
\* (barracks family) or at the level-1 LaboratoryLevel (pet shop); BarrackLevel 6 with
\* building level 6 -> TH 9, lab 5 -> TH 9 and raw 3,4,4,5,5,5 gives 5,5,5,5,5,5, and
\* a pet of level-1 LaboratoryLevel 9 with building level 9 -> TH 13 and
\* lab 7 -> TH 13 has floor 7.
C2_FlooredSeries ==
    /\ \A h \in Holders : \A c \in DOMAIN data[h] :
        LET e == data[h][c]
            lv == FloorBuildingLevel(e)
            pb == ProductionBuilding(e, english_aliases[e.TID])
            series == classes[NewItem(h, c)].lab_level
        IN  (Completed(h, c) /\ AllLabsPresent(e) /\ lv # None) =>
                /\ pb \in DOMAIN buildings
                /\ lv \in DOMAIN buildings[pb]
                /\ \E floor \in DOMAIN lab_to_townhall :
                    /\ UniqueLabFor(floor, buildings[pb][lv])
                    /\ DOMAIN series = DOMAIN e.levels
                    /\ \A i \in DOMAIN series :
                        /\ series[i] >= floor
                        /\ series[i] >= RawOf(e)[i]
                        /\ series[i] = floor \/ series[i] = RawOf(e)[i]
    /\ (/\ hpc[TroopHolder] # "new"
        /\ data[TroopHolder] = <<ScenarioTroop>>
        /\ lab_to_townhall = InjectiveMap)
            => /\ Completed(TroopHolder, 1)
               /\ classes[NewItem(TroopHolder, 1)].lab_level = <<5, 5, 5, 5, 5, 5>>
    /\ \A c \in DOMAIN data[TroopHolder] :
        LET e == data[TroopHolder][c] IN
        (/\ hpc[TroopHolder] # "new"
         /\ e.TID = "TID_PET" /\ e.ProductionBuilding = ""
         /\ e.levels[1].LaboratoryLevel = 9
         /\ AllLabsPresent(e))
            => /\ Completed(TroopHolder, c)
               /\ \A i \in DOMAIN e.levels :
                    classes[NewItem(TroopHolder, c)].lab_level[i] = Max(RawOf(e)[i], 7)

\* the scenario troop and a pet of level-1 LaboratoryLevel 9 have been built
C2_WitnessTroop ==
    /\ data[TroopHolder] = <<ScenarioTroop>>
    /\ lab_to_townhall = InjectiveMap
    /\ hpc[TroopHolder] = "returned"
    /\ classes[NewItem(TroopHolder, 1)].lab_level = <<5, 5, 5, 5, 5, 5>>

\* the reverse lookup for entry e finds no or several laboratory levels
Unresolvable(e) ==
    LET lv == FloorBuildingLevel(e)
        pb == ProductionBuilding(e, english_aliases[e.TID])
    IN  /\ lv # None
        /\ pb \in DOMAIN buildings
        /\ lv \in DOMAIN buildings[pb]
        /\ Cardinality({lab \in DOMAIN lab_to_townhall :
                            lab_to_townhall[lab] = buildings[pb][lv]}) # 1

\* the skip rules of the specification, for an entry of holder h's file
SkipRule(h, e) ==
    \/ e.TID = ""
    \/ \E i \in DOMAIN e.supercell_name : e.supercell_name[i] = "Tutorial"
    \/ e.DisableProduction /\ h # PetHolder
    \/ e.Deprecated
    \/ h = PetHolder /\ e.supercell_name \in {<<"Unused">>, <<"PhoenixEgg">>}

\* C3: an entry whose town hall level has no or several laboratory levels in
\* lab_to_townhall does not abort the load: once _load_json has ended, loaded is set
\* and every other surviving entry of the file, before and after it, is registered.
C3_BadUnitConfined ==
    \A h \in Holders :
        hpc[h] # "new" =>
            /\ loaded[h]
            /\ \A c \in DOMAIN data[h] :
                (~SkipRule(h, data[h][c]) /\ ~Unresolvable(data[h][c]))
                    => /\ InItems(h, NewItem(h, c))
                       /\ NewItem(h, c) \in Range(item_lookup)

\* C4: an entry whose production building is set and is neither of the barracks family
\* nor the pet shop is, after the load, in neither items nor item_lookup.
C4_OtherBuildingSkipped ==
    \A h \in Holders : \A c \in DOMAIN data[h] :
        LET e == data[h][c] IN
        (/\ hpc[h] # "new"
         /\ ~SkipRule(h, e)
         /\ ProductionBuilding(e, english_aliases[e.TID]) \notin BarracksFamily \cup {"Pet Shop", ""})
            => /\ ~InItems(h, NewItem(h, c))
               /\ NewItem(h, c) \notin Range(item_lookup)

\* C5: no entry that lacks a TID, has Tutorial in its identifier, has DisableProduction
\* set in a file that is not the pets file, is Deprecated, or is an ignored pet of the
\* pets file is ever in an ordered collection or in the name index, and no get
\* returns the class of such an entry.
C5_SkippedNeverRegistered ==
    \A h \in Holders : \A c \in DOMAIN data[h] :
        SkipRule(h, data[h][c]) =>
            /\ \A g \in Holders : ~InItems(g, NewItem(h, c))
            /\ NewItem(h, c) \notin Range(item_lookup)
            /\ NewItem(h, c) \notin DOMAIN classes
            /\ ret.op # "none" => ret.cls # NewItem(h, c)

\* a load that passed over a deprecated entry and registered the entry after it
C5_Witness ==
    /\ hpc[TroopHolder] = "returned"
    /\ Len(data[TroopHolder]) = 2
    /\ data[TroopHolder][1].Deprecated
    /\ InItems(TroopHolder, NewItem(TroopHolder, 2))
    /\ ret.op = "get"
    /\ ret.name = <<"b", "A">>

\* C6: load called with a name that is not in the name index raises nothing and
\* returns an instance of the caller's default class, or of the holder's data_object
\* when no default is given, with load_game_data true and with load_game_data false.
C6_MissFallsBack ==
    (ret.op = "load" /\ Lower(ret.name) \notin DOMAIN item_lookup) =>
        LET expected == IF ret.default = None THEN data_object(ret.h) ELSE ret.default IN
        /\ ret.cls = expected
        /\ ret.inst.made
        /\ ret.inst.obj.cls = expected
        /\ ret.inst.obj.name = ret.name

\* a miss with load_game_data true and a default, on a registry that holds names
C6_Witness ==
    /\ ret.op = "load"
    /\ ret.load_game_data
    /\ ret.default = Fallback
    /\ Lower(ret.name) \notin DOMAIN item_lookup
    /\ DOMAIN item_lookup # {}
    /\ ret.inst.made
    /\ ret.inst.obj.cls = Fallback

\* C7: get of a name in any casing of a registered name returns a template whose name
\* equals the queried name case-insensitively; get of a name never registered returns
\* None instead of raising.
C7_GetRoundTrip ==
    [][(ret'.op = "get" /\ ret' # ret) =>
        IF \E k \in Templates : Lower(classes[k].name) = Lower(ret'.name)
        THEN /\ ret'.cls \in Templates
             /\ Lower(classes[ret'.cls].name) = Lower(ret'.name)
        ELSE ret'.cls = None]_vars

\* a get that found a template under another casing of its name
C7_Witness ==
    /\ ret.op = "get"
    /\ ret.cls \in Templates
    /\ classes[ret.cls].name # ret.name
    /\ Lower(classes[ret.cls].name) = Lower(ret.name)

\* C10: a step of get or load leaves the ordered collections, the name index and
\* every class unchanged, and returns what the call returns on the registry as the
\* loads left it.
C10_ReadersChangeNothing ==
    [][(ret' # ret) =>
        /\ UNCHANGED <<items, item_lookup, classes, loaded>>
        /\ LET found == Lower(ret'.name) \in DOMAIN item_lookup
               dflt == IF ret'.default = None THEN data_object(ret'.h) ELSE ret'.default
           IN  ret'.cls = IF found /\ ret'.load_game_data THEN item_lookup[Lower(ret'.name)]
                          ELSE IF ret'.op = "get" THEN None ELSE dflt]_vars

\* both loads are over and a reader has materialized a unit from a template
C10_Witness ==
    /\ \A h \in Holders : hpc[h] # "new"
    /\ ret.op = "load"
    /\ ret.cls \in Templates
    /\ ret.inst.made

\* the four fields of the player data that equality and the hash are defined over
SameObservable(d1, d2) ==
    /\ d1.name = d2.name
    /\ d1.level = d2.level
    /\ d1.village = d2.village
    /\ d1.superTroopIsActive = d2.superTroopIsActive

\* C8: two instances built from the same name, level, village and is_active compare
\* equal and have the same hash, whatever class each is an instance of and whatever
\* their max_level; two instances that differ in one of the four compare unequal.
C8_EqualityOverFourFields ==
    \A s, t \in Slots :
        (insts[s].made /\ insts[t].made) =>
            IF SameObservable(insts[s].data, insts[t].data)
            THEN /\ __eq__(insts[s].obj, insts[t].obj)
                 /\ __hash__(insts[s].obj) = __hash__(insts[t].obj)
            ELSE ~__eq__(insts[s].obj, insts[t].obj)

\* two instances of the same four fields, of different classes and max_level
C8_Witness ==
    /\ insts["a"].made
    /\ insts["b"].made
    /\ SameObservable(insts["a"].data, insts["b"].data)
    /\ insts["a"].obj.cls \in Templates
    /\ insts["b"].obj.cls = data_object(PetHolder)
    /\ insts["a"].obj.max_level # insts["b"].obj.max_level
    /\ __hash__(insts["a"].obj) = __hash__(insts["b"].obj)

PositionOf(seq, k) ==
    IF \E i \in DOMAIN seq : seq[i] = k THEN CHOOSE i \in DOMAIN seq : seq[i] = k ELSE 0

\* C11: when a load has registered two entries of its file under display names that
\* are equal case-insensitively, the name lookup, under either casing, gives the class
\* of the entry that is later in the file, and both classes are in the ordered
\* collection, the earlier entry before the later one.
C11_LaterEntryWinsLookup ==
    [][\A h \in Holders :
        (hpc[h] = "new" /\ hpc'[h] # "new") =>
            \A c1, c2 \in DOMAIN data[h] :
                LET k1 == NewItem(h, c1)
                    k2 == NewItem(h, c2)
                IN  (/\ c1 < c2
                     /\ PositionOf(items'[h], k1) > 0
                     /\ PositionOf(items'[h], k2) > 0
                     /\ Lower(classes'[k1].name) = Lower(classes'[k2].name)
                     /\ \A c3 \in DOMAIN data[h] :
                            (c3 > c2 /\ PositionOf(items'[h], NewItem(h, c3)) > 0)
                                => Lower(classes'[NewItem(h, c3)].name) # Lower(classes'[k2].name))
                    => /\ CIGet(item_lookup', classes'[k1].name) = k2
                       /\ CIGet(item_lookup', classes'[k2].name) = k2
                       /\ PositionOf(items'[h], k1) < PositionOf(items'[h], k2)]_vars

\* the troops file held "Ab" and then "aB": both are in the ordered collection and
\* the lookup gives the second
C11_Witness ==
    /\ hpc[TroopHolder] = "returned"
    /\ Len(items[TroopHolder]) = 2
    /\ classes[items[TroopHolder][1]].name = <<"A", "b">>
    /\ classes[items[TroopHolder][2]].name = <<"a", "B">>
    /\ CIGet(item_lookup, <<"A", "b">>) = items[TroopHolder][2]
    /\ items[TroopHolder][1] # items[TroopHolder][2]

\* C15: the classes of a holder's ordered collection carry the ids 2000, 2001, ... in
\* the order of the collection, which is the order of the file, with no gap and no
\* repeat; the id of a class is 2000 plus the number of entries before its own that
\* no skip rule removes, so an entry that is passed over takes no id.
C15_SequentialIds ==
    \A h \in Holders :
        /\ \A i \in DOMAIN items[h] : classes[items[h][i]].id = BaseId + i - 1
        /\ \A i, j \in DOMAIN items[h] :
            i < j => \E c1, c2 \in DOMAIN data[h] :
                        c1 < c2 /\ items[h][i] = NewItem(h, c1) /\ items[h][j] = NewItem(h, c2)
        /\ \A c \in DOMAIN data[h] :
            InItems(h, NewItem(h, c)) =>
                classes[NewItem(h, c)].id =
                    BaseId + Cardinality({b \in 1..(c - 1) : ~SkipRule(h, data[h][b])})

\* two troops with the ids 2000 and 2001, and a pet that has the id 2000 although an
\* ignored pet is before it in the file
C15_Witness ==
    /\ Len(items[TroopHolder]) = 2
    /\ classes[items[TroopHolder][2]].id = BaseId + 1
    /\ Len(data[PetHolder]) = 2
    /\ SkipRule(PetHolder, data[PetHolder][1])
    /\ items[PetHolder] = <<NewItem(PetHolder, 2)>>
    /\ classes[NewItem(PetHolder, 2)].id = BaseId

\* C17: loaded is false on a holder from its construction until its _load_json has
\* gone through every entry of the file and is true from then on (hpc only ever goes
\* from "new" to "returned" or "raised"); while loaded is false after a _load_json
\* that raised, no class made by that call is in the ordered collection or in the
\* name index.
C17_LoadedFlagAndNoPartialLoad ==
    \A h \in Holders :
        /\ loaded[h] <=> hpc[h] = "returned"
        /\ (hpc[h] = "raised" /\ ~loaded[h]) =>
                \A c \in DOMAIN data[h] :
                    /\ ~InItems(h, NewItem(h, c))
                    /\ NewItem(h, c) \notin Range(item_lookup)

\* no class is found under the name in holder h's own ordered collection
NotLoadedBy(h, name) ==
    \A i \in DOMAIN items[h] : Lower(classes[items[h][i]].name) # Lower(name)

\* C18: whatever the other holders have loaded, get on a holder gives None, and load
\* with load_game_data gives the default class, for a name that the holder's own
\* _load_json has registered no class under.
C18_HoldersIsolated ==
    (ret.op # "none" /\ ret.load_game_data /\ NotLoadedBy(ret.h, ret.name)) =>
        ret.cls = IF ret.op = "get" THEN None ELSE DefaultOr(ret.h, ret.default)

\* the stat series of class k
StatSeriesOf(k) ==
    {classes[k].range, classes[k].dps, classes[k].hitpoints, classes[k].speed,
     classes[k].upgrade_cost, classes[k].upgrade_time, classes[k].lab_level,
     classes[k].required_th_level, classes[k].regeneration_time, classes[k].ability_time,
     classes[k].ability_troop_count}

\* C13: every series of a registered class that is defined (range, dps, hitpoints,
\* speed, upgrade_cost, upgrade_time, laboratory_level, required_townhall_level,
\* regeneration_time, ability_time, ability_troop_count) has as many values as the
\* entry has level blocks, also when UpgradeTimeH or RegenerationTimeMinutes is on
\* some of the levels only.
C13_DefinedSeriesSameLength ==
    \A h \in Holders : \A c \in DOMAIN data[h] :
        InItems(h, NewItem(h, c)) =>
            \A series \in StatSeriesOf(NewItem(h, c)) :
                series # <<>> => Len(series) = Len(data[h][c].levels)

\* C14: the required_townhall_level series of a completed class is its
\* laboratory_level series, floor included, when no level of the entry has a
\* RequiredTownHallLevel other than None and 0, and is the list of the per-level
\* RequiredTownHallLevel values otherwise.
C14_RequiredThLevelFallsBack ==
    \A h \in Holders : \A c \in DOMAIN data[h] :
        LET e == data[h][c]
            k == NewItem(h, c)
            raw == [i \in DOMAIN e.levels |-> LevelGet(e.levels[i], "RequiredTownHallLevel")]
        IN  Completed(h, c) =>
                IF \A i \in DOMAIN raw : raw[i] = None \/ raw[i] = 0
                THEN /\ classes[k].required_th_level = classes[k].lab_level
                     /\ (FloorBuildingLevel(e) # None /\ AllLabsPresent(e)) =>
                            \E floor \in DOMAIN lab_to_townhall :
                                /\ UniqueLabFor(floor, buildings[e.ProductionBuilding][FloorBuildingLevel(e)])
                                /\ \A i \in DOMAIN raw :
                                    classes[k].required_th_level[i] = Max(RawOf(e)[i], floor)
                ELSE classes[k].required_th_level = raw

\* a barracks unit of two levels without RequiredTownHallLevel whose series is the
\* floored one, not the raw LaboratoryLevel values
C14_Witness ==
    /\ Completed(TroopHolder, 1)
    /\ data[TroopHolder][1].ProductionBuilding = "Barrack"
    /\ Len(data[TroopHolder][1].levels) = 2
    /\ \A i \in 1..2 : LevelGet(data[TroopHolder][1].levels[i], "RequiredTownHallLevel") = None
    /\ classes[NewItem(TroopHolder, 1)].required_th_level = <<5, 5>>
    /\ RawOf(data[TroopHolder][1]) = <<3, 3>>

\* C16: at every moment, also after name, level, village or is_active of an instance
\* has been assigned a new value, two instances that __eq__ finds equal have the
\* same __hash__.
C16_EqualInstancesHashEqual ==
    \A s, t \in Slots :
        (insts[s].made /\ insts[t].made /\ __eq__(insts[s].obj, insts[t].obj))
            => __hash__(insts[s].obj) = __hash__(insts[t].obj)

\* the attributes of two classes are the same, the id left aside
SameFields(k1, k2) == [classes[k1] EXCEPT !.id = None] = [classes[k2] EXCEPT !.id = None]

\* C12: when the file of a holder has been loaded a second time, the second load has
\* registered as many classes as the first, and the i-th class of the second load
\* is built from the same entry as the i-th class of the first, is another class
\* object, and has the same value in every attribute but the id.
C12_SecondLoadBuildsEqualTemplates ==
    \A h \in Holders :
        hpc[h] = "reloaded" =>
            LET n == Len(items[h]) \div 2 IN
            /\ Len(items[h]) = 2 * n
            /\ \A i \in 1..n :
                /\ \E c \in DOMAIN data[h] :
                    /\ items[h][i] = NewItem(h, c)
                    /\ items[h][n + i] = NewItem(h, c) + SecondCall
                /\ SameFields(items[h][i], items[h][n + i])

\* a troops file of two registered entries loaded twice: four classes, the third equal
\* to the first in its series and name
C12_Witness ==
    /\ hpc[TroopHolder] = "reloaded"
    /\ Len(items[TroopHolder]) = 4
    /\ items[TroopHolder][1] # items[TroopHolder][3]
    /\ classes[items[TroopHolder][3]].lab_level # <<>>
    /\ classes[items[TroopHolder][3]].lab_level = classes[items[TroopHolder][1]].lab_level
    /\ classes[items[TroopHolder][3]].name = classes[items[TroopHolder][1]].name

====
